---- MODULE Spec2Model ----
(***************************************************************************)
(* MallCCTV: the online associator (ByteTracker, cv_pipeline/tracker.py)   *)
(* and the windowed track-state aggregator (process_tracks,                *)
(* cv_pipeline/track_state_processor.py) over the track_states table       *)
(* (database/models.py).                                                   *)
(*                                                                         *)
(* Numbers.  Confidences and thresholds are held in hundredths (0.5 is 50).*)
(* An IoU is the exact fraction <<intersection, union>>; comparisons       *)
(* cross-multiply, which agrees with the float comparison of the code on   *)
(* the small integer boxes used here.                                      *)
(***************************************************************************)
EXTENDS Integers, Sequences, FiniteSets, Bags, TLC

VARIABLES
    track_thresh,   \* ByteTracker.track_thresh, hundredths
    match_thresh,   \* ByteTracker.match_thresh, hundredths
    max_age,        \* ByteTracker.max_age, frames
    tracks,         \* ByteTracker.tracks: track id -> [bbox, last_seen]
    next_id,        \* ByteTracker.next_id
    call,           \* arguments of the latest update call
    ret,            \* outcome of the latest update call: returned or raised,
                    \* the returned list, the ids it allocated
    issued,         \* every id taken from next_id so far, in order
    prev_max_frame, \* highest frame_id of the calls before the latest one
    now,            \* datetime.utcnow(), in time units (Resolution a second)
    detection_rows, \* the detections table
    track_states,   \* the track_states table (committed rows): a bag of
                    \* rows without the surrogate key id, which nothing reads
    cycle,          \* the latest process_tracks run since the history or
                    \* the clock last changed: how it ended, the metrics
                    \* list it built, the rows its DELETE matched
    sessions,       \* the process_tracks executions under way, one per
                    \* process that runs the script: where each is, its
                    \* metrics list, the rows it has deleted and inserted
                    \* and not yet committed
    probe,          \* a direct call of compute_metrics, parse_bbox or
                    \* _calculate_iou: its argument and, once it has run,
                    \* its result
    video,          \* a VideoProcessor.run: whether its loop is running,
                    \* save_to_db, self.frame_id, unique_tracks and
                    \* total_unique; which run on the camera it is and the
                    \* time at which it started
    alerts,         \* the alerts table: a bag of rows
    agent           \* the latest run of the loitering agent since the
                    \* clock last changed: how it ended and the tracks
                    \* get_loitering_tracks returned

trackerVars == <<track_thresh, match_thresh, max_age, tracks, next_id,
                 call, ret, issued, prev_max_frame>>

storeVars == <<now, detection_rows, track_states, cycle>>

agentVars == <<alerts, agent>>

callVars == <<sessions, probe, video, agentVars>>

vars == <<trackerVars, storeVars, callVars>>

-----------------------------------------------------------------------------
(* Bounds and input sets                                                   *)

MaxDets == 2        \* detections per update call
MaxId == 2          \* ids the tracker may allocate in a run
MaxFrame == 2       \* frame ids 1..MaxFrame, and the first one past max_age

DefaultTrackThresh == 50
DefaultMatchThresh == 80
DefaultMaxAge == 30

None == 0           \* Python None / falsy best_match_id

Max2(a, b) == IF a >= b THEN a ELSE b
Min2(a, b) == IF a <= b THEN a ELSE b

\* Boxes fed to update: three overlapping well-formed boxes
\* (IoU 80/100, 90/100 and 80/90 pairwise), one with inverted corners and
\* one that is not four coordinates.
BoxA == <<0, 0, 10, 10>>
BoxB == <<0, 0, 10, 8>>
BoxC == <<0, 0, 10, 9>>
BoxInv == <<10, 10, 0, 0>>
BoxShort == <<0, 0, 10>>

\* The well-formed boxes with a confidence above track_thresh, and one
\* detection whose confidence equals track_thresh.
DetectionSet ==
    [bbox : {BoxA, BoxB, BoxC}, confidence : {90}]
        \cup [bbox : {BoxA}, confidence : {50}]

\* Detections of a stream that also delivers malformed boxes.
MalformedDetectionSet == [bbox : {BoxA, BoxInv, BoxShort}, confidence : {90}]

RECURSIVE SeqsUpTo(_, _)
SeqsUpTo(S, n) ==
    IF n = 0 THEN {<<>>}
    ELSE LET shorter == SeqsUpTo(S, n - 1)
         IN  shorter \cup {Append(s, x) : s \in {t \in shorter : Len(t) = n - 1}, x \in S}

DetectionLists == SeqsUpTo(DetectionSet, MaxDets)
MalformedDetectionLists == SeqsUpTo(MalformedDetectionSet, MaxDets)

FrameIds == (1 .. MaxFrame) \cup {DefaultMaxAge + 1}

-----------------------------------------------------------------------------
(* ByteTracker                                                             *)

\* x1, y1, x2, y2 = box raises ValueError unless the box has four entries.
Unpacks(box) == Len(box) = 4

\* As NoOverlap, with "and" for "or".
NoOverlapOnBothAxes(x1_i, y1_i, x2_i, y2_i) == x2_i < x1_i /\ y2_i < y1_i

\* The test of line 57 for an empty intersection.
NoOverlap(x1_i, y1_i, x2_i, y2_i) == x2_i < x1_i \/ y2_i < y1_i

\* As UnionOf, with area1 written for area2.
UnionOfFirstTwice(area1, area2, intersection) == area1 + area1 - intersection

\* As UnionOf, without the subtraction of the intersection.
UnionOfSum(area1, area2, intersection) == area1 + area2

\* union of line 63
UnionOf(area1, area2, intersection) == area1 + area2 - intersection

\* _calculate_iou on two boxes that unpack: the fraction intersection/union,
\* <<0, 1>> where the code returns 0.0.
CalculateIou(box1, box2) ==
    LET x1_i == Max2(box1[1], box2[1])
        y1_i == Max2(box1[2], box2[2])
        x2_i == Min2(box1[3], box2[3])
        y2_i == Min2(box1[4], box2[4])
    IN  IF NoOverlap(x1_i, y1_i, x2_i, y2_i) THEN <<0, 1>>
        ELSE LET intersection == (x2_i - x1_i) * (y2_i - y1_i)
                 area1 == (box1[3] - box1[1]) * (box1[4] - box1[2])
                 area2 == (box2[3] - box2[1]) * (box2[4] - box2[2])
                 union == UnionOf(area1, area2, intersection)
             IN  IF union > 0 THEN <<intersection, union>> ELSE <<0, 1>>

\* iou > thresh, thresh in hundredths
IouExceeds(iou, thresh) == iou[1] * 100 > thresh * iou[2]

\* As IouGreater, with >= for >.
IouGreaterOrEqual(iou, best) == iou[1] * best[2] >= best[1] * iou[2]

\* iou > best_iou
IouGreater(iou, best) == iou[1] * best[2] > best[1] * iou[2]

\* As BetterMatch, without the comparison with the best IoU so far.
AnyMatchAboveThresh(iou, best_iou, thresh) == IouExceeds(iou, thresh)

\* The condition of line 26 under which a track becomes the best match.
BetterMatch(iou, best_iou, thresh) ==
    IouExceeds(iou, thresh) /\ IouGreater(iou, best_iou)

\* The inner loop of update (lines 21-28).  The dict is iterated in insertion
\* order, which is ascending id: ids are inserted in increasing order and
\* the eviction comprehension keeps the order.  Returns best_match_id.
RECURSIVE MatchLoop(_, _, _, _, _, _)
MatchLoop(bbox, trks, tid, best_match_id, best_iou, thresh) ==
    IF \A t \in DOMAIN trks : t < tid THEN best_match_id
    ELSE IF tid \notin DOMAIN trks
         THEN MatchLoop(bbox, trks, tid + 1, best_match_id, best_iou, thresh)
         ELSE LET iou == CalculateIou(bbox, trks[tid].bbox)
              IN  IF BetterMatch(iou, best_iou, thresh)
                  THEN MatchLoop(bbox, trks, tid + 1, tid, iou, thresh)
                  ELSE MatchLoop(bbox, trks, tid + 1, best_match_id, best_iou, thresh)

BestMatch(bbox, trks, thresh) == MatchLoop(bbox, trks, 1, None, <<0, 1>>, thresh)

\* The inner loop raises when it must unpack a box that is not four entries:
\* the detection's box on the first track visited, or a stored track box.
MatchRaises(bbox, trks) ==
    /\ DOMAIN trks # {}
    /\ (~Unpacks(bbox) \/ \E t \in DOMAIN trks : ~Unpacks(trks[t].bbox))

\* As HighConf, with >= for >.
HighConfInclusive(detections) ==
    SelectSeq(detections, LAMBDA d : d.confidence >= track_thresh)

\* high_conf of line 17
HighConf(detections) ==
    SelectSeq(detections, LAMBDA d : d.confidence > track_thresh)

\* As NextIdAfter, without the increment.
NextIdStuck(nid) == nid

\* self.next_id += 1
NextIdAfter(nid) == nid + 1

\* {**detection, "track_id": track_id}
Tagged(detection, track_id) ==
    [f \in DOMAIN detection \cup {"track_id"} |->
        IF f = "track_id" THEN track_id ELSE detection[f]]

\* The one element of a singleton set.  {F(x) : x \in {e}} computes e once
\* and binds it to x, as an assignment to a local variable does.
The(S) == CHOOSE x \in S : TRUE

\* As Refreshed, without the assignment to bbox.
RefreshedKeepsBbox(track, detection, frame_id) ==
    [bbox |-> track.bbox, last_seen |-> frame_id]

\* As Refreshed, without the assignment to last_seen.
RefreshedKeepsLastSeen(track, detection, frame_id) ==
    [bbox |-> detection.bbox, last_seen |-> track.last_seen]

\* Lines 31-32: the matched track after its bbox and last_seen are assigned.
Refreshed(track, detection, frame_id) ==
    [bbox |-> detection.bbox, last_seen |-> frame_id]

\* One pass of the outer loop of update (lines 21-39) for one detection, on
\* the loop state st: the tracks, next_id, tracked_objects and the ids
\* allocated so far.  An exception ends the call with the tracks as mutated
\* so far and nothing returned.
ProcessDetection(st, detection, frame_id) ==
    IF MatchRaises(detection.bbox, st.tracks)
    THEN [st EXCEPT !.status = "raised", !.objs = <<>>]
    ELSE The({
        IF best_match_id # None
        THEN [st EXCEPT
                !.tracks[best_match_id] =
                    Refreshed(st.tracks[best_match_id], detection, frame_id),
                !.objs = Append(@, Tagged(detection, best_match_id))]
        ELSE [st EXCEPT
                !.tracks = [t \in DOMAIN st.tracks \cup {st.next_id} |->
                              IF t = st.next_id
                              THEN [bbox |-> detection.bbox, last_seen |-> frame_id]
                              ELSE st.tracks[t]],
                !.next_id = NextIdAfter(st.next_id),
                !.objs = Append(@, Tagged(detection, st.next_id)),
                !.new_ids = Append(@, st.next_id)]
        : best_match_id \in {BestMatch(detection.bbox, st.tracks, match_thresh)}})

\* The outer loop of update (lines 20-39) from detection i on.
RECURSIVE DetectionLoop(_, _, _, _)
DetectionLoop(high_conf, i, st, frame_id) ==
    IF i > Len(high_conf) \/ st.status = "raised" THEN st
    ELSE The({DetectionLoop(high_conf, i + 1, after, frame_id) :
              after \in {ProcessDetection(st, high_conf[i], frame_id)}})

\* The loop state update starts from (lines 17-18).
LoopStart(trks, nid) ==
    [status |-> "ok", tracks |-> trks, next_id |-> nid,
     objs |-> <<>>, new_ids |-> <<>>]

\* As Evict, with <= for <.
EvictInclusive(trks, frame_id) ==
    [t \in {u \in DOMAIN trks : frame_id - trks[u].last_seen <= max_age} |-> trks[t]]

\* Lines 41-45: the tracks kept after the loop.
Evict(trks, frame_id) ==
    [t \in {u \in DOMAIN trks : frame_id - trks[u].last_seen < max_age} |-> trks[t]]

\* ByteTracker.__init__ with the default arguments, as VideoProcessor builds it.
TrackerInit ==
    /\ track_thresh = DefaultTrackThresh
    /\ match_thresh = DefaultMatchThresh
    /\ max_age = DefaultMaxAge
    /\ tracks = <<>>
    /\ next_id = 1
    /\ call = [detections |-> <<>>, frame_id |-> 0]
    /\ ret = [status |-> "none", objs |-> <<>>, new_ids |-> <<>>]
    /\ issued = <<>>
    /\ prev_max_frame = 0

\* ByteTracker(match_thresh=0.5): the other arguments at their defaults.
ExampleMatchThresh == 50
ExampleTrackerInit ==
    /\ track_thresh = DefaultTrackThresh
    /\ match_thresh = ExampleMatchThresh
    /\ max_age = DefaultMaxAge
    /\ tracks = <<>>
    /\ next_id = 1
    /\ call = [detections |-> <<>>, frame_id |-> 0]
    /\ ret = [status |-> "none", objs |-> <<>>, new_ids |-> <<>>]
    /\ issued = <<>>
    /\ prev_max_frame = 0

\* ByteTracker.update(detections, frame_id)
Update(detections, frame_id) ==
    \E high_conf \in {HighConf(detections)} :
    \E r \in {DetectionLoop(high_conf, 1, LoopStart(tracks, next_id), frame_id)} :
        /\ r.next_id <= MaxId + 1
        /\ tracks' = IF r.status = "ok" THEN Evict(r.tracks, frame_id) ELSE r.tracks
        /\ next_id' = r.next_id
        /\ ret' = [status |-> r.status, objs |-> r.objs, new_ids |-> r.new_ids]
        /\ issued' = issued \o r.new_ids
        /\ call' = [detections |-> detections, frame_id |-> frame_id]
        /\ prev_max_frame' = Max2(prev_max_frame, call.frame_id)
        /\ UNCHANGED <<track_thresh, match_thresh, max_age>>

UpdateCall == \E detections \in DetectionLists, frame_id \in FrameIds :
                 Update(detections, frame_id)

\* The stream given to the tracker built with match_thresh = 0.5: BoxA, the
\* same box shifted by one pixel each way and a box apart from both, at
\* frames 1, 2 and 40.
BoxShifted == <<1, 1, 11, 11>>
BoxApart == <<20, 20, 30, 30>>
ExampleDetectionLists ==
    SeqsUpTo([bbox : {BoxA, BoxShifted, BoxApart}, confidence : {90}], MaxDets)
ExampleFrameIds == {1, 2, 40}

ExampleUpdateCall ==
    \E detections \in ExampleDetectionLists, frame_id \in ExampleFrameIds :
        Update(detections, frame_id)

\* A stream on which two tracks tie: BoxC and BoxLow are BoxA without its
\* last and without its first row of pixels, each has IoU 0.9 with BoxA, and
\* their IoU with each other is 0.8, which does not match.
BoxLow == <<0, 1, 10, 10>>
TieDetectionLists ==
    SeqsUpTo([bbox : {BoxA, BoxC, BoxLow}, confidence : {90}], MaxDets)

TieUpdateCall ==
    \E detections \in TieDetectionLists, frame_id \in FrameIds :
        Update(detections, frame_id)

MalformedUpdateCall ==
    \E detections \in MalformedDetectionLists, frame_id \in FrameIds :
        Update(detections, frame_id)

-----------------------------------------------------------------------------
(* Track-state aggregator: track_state_processor.py over the detections and *)
(* track_states tables                                                     *)

WINDOW_HOURS == 1
MIN_DETECTIONS == 3
SecondsPerHour == 3600
LoiterThresholdSec == 120
ZoneSpeedLimit == 5

MaxRows == 6          \* rows of the detections table
MaxTicks == 3         \* clock advances in a run
MaxTrackStates == 3   \* rows of the track_states table
Resolution == 2       \* time units in a second: a timestamp is a whole
                      \* number of units, so it may fall between seconds

\* A span of s seconds, in time units.
Seconds(s) == s * Resolution

\* The clock advances by a minute or by the length of the window.
TickSizes == {Seconds(60), Seconds(WINDOW_HOURS * SecondsPerHour)}

CameraIds == {"CAM_001"}
CameraRank(c) == IF c = "CAM_001" THEN 1 ELSE 2
TrackIds == {1, 2}

\* A value of the bbox column is [form, coords].  form is what the value is:
\* a list ("list"), a dict ("dict"), a string that json.loads turns into a
\* list ("json") or a dict ("json_dict"), a string json.loads rejects
\* ("text"), None ("null"), anything else ("number").  coords holds the
\* entries of the list, or the values under 'x1', 'y1', 'x2', 'y2' of the
\* dict; an entry is a number, something float() rejects, or (dict only) a
\* missing key.
Num(v) == [kind |-> "num", val |-> v]
NotNum == [kind |-> "text", val |-> 0]
Missing == [kind |-> "missing", val |-> 0]
Nums(coords) == [i \in DOMAIN coords |-> Num(coords[i])]

\* str(obj['bbox']) as video_processor stores it: a JSON list of four numbers.
BoxNear == [form |-> "json", coords |-> Nums(<<0, 0, 10, 10>>)]
BoxFar == [form |-> "json", coords |-> Nums(<<600, 0, 610, 10>>)]
StoredBoxes == {BoxNear, BoxFar}

\* The detection histories a run starts from: rows of two tracks of one
\* camera, written at second 0 and at second 60 (the clock at the start).
HistoryTimes == {0, Seconds(60)}
CandidateRows ==
    [camera_id : CameraIds, track_id : TrackIds, timestamp : HistoryTimes,
     class_name : {"person"}, bbox : StoredBoxes]
Histories == {h \in SUBSET CandidateRows : Cardinality(h) <= MaxRows}

\* class_name ILIKE '%person%'
IlikePerson(class_name) == class_name \in {"person", "Person", "salesperson"}

RECURSIVE Gcd(_, _)
Gcd(a, b) == IF b = 0 THEN a ELSE Gcd(b, a % b)

Abs(x) == IF x < 0 THEN 0 - x ELSE x

\* A fraction <<n, d>>, d > 0, in lowest terms.
Frac(n, d) == IF n = 0 THEN <<0, 1>>
              ELSE LET g == Gcd(Abs(n), d) IN <<n \div g, d \div g>>
FracAdd(a, b) == Frac(a[1] * b[2] + b[1] * a[2], a[2] * b[2])
FracLess(a, k) == a[1] < k * a[2]

\* sqrt on the squares the inputs produce (exact); the floor otherwise.
Sqrt(k) == CHOOSE r \in 0 .. k : r * r <= k /\ (r + 1) * (r + 1) > k
Dist(dx, dy) == IF dy = 0 THEN Abs(dx)
                ELSE IF dx = 0 THEN Abs(dy) ELSE Sqrt(dx * dx + dy * dy)

\* float(x) on the first four entries: it raises on an entry that is not a
\* number; bbox.get(key, 0) has put 0 for a missing key.
FloatsRaise(coords) == \E i \in 1 .. 4 : coords[i].kind = "text"
Floats(coords) == [i \in 1 .. 4 |-> IF coords[i].kind = "num" THEN coords[i].val
                                     ELSE 0]

\* An exception leaves the try body: nothing is returned (value is a
\* placeholder no caller gets to see).
Raises == [raised |-> TRUE, value |-> <<0, 0, 0, 0>>]

\* Lines 36-49, the body of the try: what it returns, or that it raised.
ParseBboxBody(bbox_data) ==
    LET loaded == IF bbox_data.form = "json" THEN "list"
                  ELSE IF bbox_data.form = "json_dict" THEN "dict"
                  ELSE bbox_data.form
        zeros == [raised |-> FALSE, value |-> <<0, 0, 0, 0>>]
    IN  IF loaded = "text" THEN Raises
        ELSE IF (loaded = "list" /\ Len(bbox_data.coords) >= 4) \/ loaded = "dict"
        THEN IF FloatsRaise(bbox_data.coords)
             THEN Raises
             ELSE [raised |-> FALSE, value |-> Floats(bbox_data.coords)]
        ELSE zeros

\* As ExceptReturnsZeros, letting the exception through.
ExceptReraises(outcome) == outcome

\* Lines 50-52: an exception of the body is logged and zeros are returned.
ExceptReturnsZeros(outcome) ==
    IF outcome.raised THEN [raised |-> FALSE, value |-> <<0, 0, 0, 0>>]
    ELSE outcome

\* parse_bbox(bbox_data) as a call: what it returns, or that it raised.
ParseBboxCall(bbox_data) == ExceptReturnsZeros(ParseBboxBody(bbox_data))

\* parse_bbox: a list (or a JSON string of one) of at least four numbers gives
\* its first four entries, a dict its named corners, anything else zeros.
ParseBbox(bbox_data) == ParseBboxCall(bbox_data).value

\* As Eligible, with the retention span of the eviction for the window.
EligibleWithinRetention(d, clock) ==
    /\ d.timestamp >= clock - Seconds((WINDOW_HOURS + 1) * SecondsPerHour)
    /\ d.track_id # None
    /\ IlikePerson(d.class_name)

\* The filter of get_recent_detections.
Eligible(d, clock) ==
    /\ d.timestamp >= clock - Seconds(WINDOW_HOURS * SecondsPerHour)
    /\ d.track_id # None
    /\ IlikePerson(d.class_name)

\* ORDER BY camera_id, track_id, timestamp: d1 sorts strictly before d2.
SortsBefore(d1, d2) ==
    \/ CameraRank(d1.camera_id) < CameraRank(d2.camera_id)
    \/ /\ d1.camera_id = d2.camera_id
       /\ \/ d1.track_id < d2.track_id
          \/ d1.track_id = d2.track_id /\ d1.timestamp < d2.timestamp

\* Every order the query may return the rows in: rows that tie on the three
\* sort columns come in any order.
RECURSIVE SortedSeqs(_)
SortedSeqs(S) ==
    IF S = {} THEN {<<>>}
    ELSE UNION {{<<x>> \o rest : rest \in SortedSeqs(S \ {x})} :
                x \in {m \in S : \A y \in S : ~SortsBefore(y, m)}}

\* The results get_recent_detections may return at the given clock.
GetRecentDetections(clock) ==
    SortedSeqs({d \in detection_rows : Eligible(d, clock)})

\* key = f"{d.camera_id}_{d.track_id}"
GroupKey(d) == <<d.camera_id, d.track_id>>

\* The keys of the tracks dict, in insertion order.
RECURSIVE GroupKeys(_, _, _)
GroupKeys(dets, i, keys) ==
    IF i > Len(dets) THEN keys
    ELSE IF \E k \in 1 .. Len(keys) : keys[k] = GroupKey(dets[i])
         THEN GroupKeys(dets, i + 1, keys)
         ELSE GroupKeys(dets, i + 1, Append(keys, GroupKey(dets[i])))

Group(dets, key) == SelectSeq(dets, LAMBDA d : GroupKey(d) = key)

MaxOf(S) == CHOOSE x \in S : \A y \in S : y <= x
MinOf(S) == CHOOSE x \in S : \A y \in S : x <= y

\* As StepSpeed, guarding against a zero elapsed time only.
StepSpeedNonZero(dist, dt) ==
    IF dt > 0 THEN Frac(dist * Resolution, dt)
    ELSE IF dt < 0 THEN Frac(0 - dist * Resolution, 0 - dt)
    ELSE <<0, 1>>

\* Line 92: dist/dt if dt > 0 else 0, dt in seconds.
StepSpeed(dist, dt) ==
    IF dt > 0 THEN Frac(dist * Resolution, dt) ELSE <<0, 1>>

\* Lines 85-92: the per-step speeds summed, from step i on.
RECURSIVE SpeedSum(_, _)
SpeedSum(track_dets, i) ==
    IF i > Len(track_dets) THEN <<0, 1>>
    ELSE LET c1 == ParseBbox(track_dets[i].bbox)
             c0 == ParseBbox(track_dets[i - 1].bbox)
             dist == Dist(c1[1] - c0[1], c1[2] - c0[2])
             dt == track_dets[i].timestamp - track_dets[i - 1].timestamp
             speed == StepSpeed(dist, dt)
         IN  FracAdd(speed, SpeedSum(track_dets, i + 1))

\* As ZoneOf, with <= for <.
ZoneOfInclusive(avg_speed) ==
    IF avg_speed[1] <= ZoneSpeedLimit * avg_speed[2] THEN 1 ELSE None

\* zone_id = 1 if avg_speed < 5 else None
ZoneOf(avg_speed) == IF FracLess(avg_speed, ZoneSpeedLimit) THEN 1 ELSE None

\* As WholeSeconds, rounding to the nearest second.
WholeSecondsRounded(span) == (span + Resolution \div 2) \div Resolution

\* int(timedelta.total_seconds()) of a span that is not negative: the
\* fraction of a second is dropped.
WholeSeconds(span) == span \div Resolution

\* As StatusOf, with >= for >.
StatusOfInclusive(dwell) ==
    IF dwell >= LoiterThresholdSec THEN "loitering" ELSE "active"

\* status of line 103
StatusOf(dwell) == IF dwell > LoiterThresholdSec THEN "loitering" ELSE "active"

\* As TooFew, refusing also a group of exactly MIN_DETECTIONS.
TooFewInclusive(n) == n <= MIN_DETECTIONS

\* Line 74: the group is too sparse.
TooFew(n) == n < MIN_DETECTIONS

\* As DetectionCount, adding to the count of the rows the store holds for
\* the track.
DetectionCountPatched(track_dets) ==
    LET persisted == {r \in BagToSet(track_states) :
                         /\ r.camera_id = track_dets[1].camera_id
                         /\ r.track_id = track_dets[1].track_id}
    IN  Len(track_dets)
        + (IF persisted = {} THEN 0
           ELSE MaxOf({r.detection_count : r \in persisted}))

\* 'detection_count': n of line 102
DetectionCount(track_dets) == Len(track_dets)

\* compute_metrics: <<>> for None, else the one dict.
ComputeMetrics(track_dets) ==
    LET n == Len(track_dets) IN
    IF TooFew(n) THEN <<>>
    ELSE LET d0 == track_dets[1]
             times == {track_dets[i].timestamp : i \in 1 .. n}
             dwell == WholeSeconds(MaxOf(times) - MinOf(times))
             total == SpeedSum(track_dets, 2)
             avg_speed == Frac(total[1], total[2] * (n - 1))
         IN  <<[camera_id |-> d0.camera_id, track_id |-> d0.track_id,
                zone_id |-> ZoneOf(avg_speed), class_name |-> d0.class_name,
                enter_time |-> MinOf(times), last_time |-> MaxOf(times),
                total_dwell_sec |-> dwell,
                detection_count |-> DetectionCount(track_dets),
                avg_speed |-> avg_speed, status |-> StatusOf(dwell)]>>

\* Lines 119-123: the metrics list.
RECURSIVE MetricsOf(_, _, _)
MetricsOf(dets, keys, i) ==
    IF i > Len(keys) THEN <<>>
    ELSE ComputeMetrics(Group(dets, keys[i])) \o MetricsOf(dets, keys, i + 1)

\* As Cutoff, without the hour of grace.
CutoffAtWindow(clock) == clock - Seconds(WINDOW_HOURS * SecondsPerHour)

\* As Cutoff, with one more hour of grace.
CutoffLate(clock) == clock - Seconds((WINDOW_HOURS + 2) * SecondsPerHour)

\* Line 126: the eviction cutoff.
Cutoff(clock) == clock - Seconds((WINDOW_HOURS + 1) * SecondsPerHour)

\* As AfterDelete, deleting also the rows of the tracks that have no
\* detection in the window any more.
AfterDeleteOfExited(table, clock) ==
    LET kept == {r \in BagToSet(table) :
                    /\ ~(r.last_time < Cutoff(clock))
                    /\ \E d \in detection_rows :
                          /\ d.camera_id = r.camera_id
                          /\ d.track_id = r.track_id
                          /\ d.timestamp >= clock - Seconds(WINDOW_HOURS * SecondsPerHour)}
    IN  [r \in kept |-> table[r]]

\* As AfterDelete, deleting also the rows whose last_time is the cutoff.
AfterDeleteInclusive(table, clock) ==
    LET kept == {r \in BagToSet(table) : ~(r.last_time <= Cutoff(clock))}
    IN  [r \in kept |-> table[r]]

\* Lines 126-129: the rows the eviction DELETE leaves.
AfterDelete(table, clock) ==
    LET kept == {r \in BagToSet(table) :
                    ~(r.last_time < Cutoff(clock))}
    IN  [r \in kept |-> table[r]]

\* The row session.merge(TrackState(**m)) makes pending.  The object has no
\* primary key, so merge loads nothing and adds a new instance: an INSERT.
MergedRow(m) ==
    [camera_id |-> m.camera_id, track_id |-> m.track_id,
     zone_id |-> m.zone_id, class_name |-> m.class_name,
     enter_time |-> m.enter_time, last_time |-> m.last_time,
     total_dwell_sec |-> m.total_dwell_sec,
     detection_count |-> m.detection_count, avg_speed |-> m.avg_speed,
     status |-> m.status]

\* unique_track_zone: an INSERT is refused when a row with the same three
\* columns exists; rows whose zone_id is NULL never conflict (PostgreSQL).
ViolatesUnique(table, row) ==
    /\ row.zone_id # None
    /\ \E r \in BagToSet(table) :
                        /\ r.camera_id = row.camera_id
                        /\ r.track_id = row.track_id
                        /\ r.zone_id = row.zone_id

\* The flush at commit: the pending INSERTs in order, from metric i on.
\* fail_at is the index of an INSERT the store fails on (0: none).
RECURSIVE Flush(_, _, _, _)
Flush(metrics, i, table, fail_at) ==
    IF i > Len(metrics) THEN [raised |-> FALSE, table |-> table]
    ELSE LET row == MergedRow(metrics[i]) IN
         IF i = fail_at \/ ViolatesUnique(table, row)
         THEN [raised |-> TRUE, table |-> table]
         ELSE Flush(metrics, i + 1, table (+) SetToBag({row}), fail_at)

\* As Rollback, keeping what the transaction had written.
RollbackKeepsWorking(committed, working) == working

\* session.rollback(): the committed rows are those before the transaction.
Rollback(committed, working) == committed

Faults == {"none", "read", "compute", "delete", "upsert", "commit"}

\* process_tracks as one transaction: the table the transaction sees when it
\* ends, whether it ended in the except branch, the metrics list it built
\* and the number of rows its DELETE matched.  fault names the step at
\* which the store (or compute_metrics) raises.
Transaction(dets, fault) ==
    LET metrics == MetricsOf(dets, GroupKeys(dets, 1, <<>>), 1)
        deleted == AfterDelete(track_states, now)
        flushed == Flush(metrics, 1, deleted, IF fault = "upsert" THEN 1 ELSE 0)
    IN  IF fault \in {"read", "compute"}
        THEN [raised |-> TRUE, working |-> track_states, metrics |-> <<>>,
              evicted |-> 0]
        ELSE IF fault = "delete"
        THEN [raised |-> TRUE, working |-> track_states, metrics |-> metrics,
              evicted |-> 0]
        ELSE [raised |-> flushed.raised \/ fault = "commit",
              working |-> flushed.table, metrics |-> metrics,
              evicted |-> BagCardinality(track_states) - BagCardinality(deleted)]

\* No process_tracks run since the history or the clock last changed.
NoCycle == [status |-> "none", fault |-> "none", metrics |-> <<>>, evicted |-> 0]

\* The store when a run starts: the clock at second 60, the given history
\* in the detections table, no track_states row yet.
StoreInit(history) ==
    /\ now = Seconds(60)
    /\ detection_rows = history
    /\ track_states = EmptyBag
    /\ cycle = NoCycle

\* process_tracks()
ProcessTracks(dets, fault) ==
    \E t \in {Transaction(dets, fault)} :
    /\ fault = "compute" => \E k \in 1 .. Len(dets) :
                                Len(Group(dets, GroupKey(dets[k]))) >= MIN_DETECTIONS
    /\ fault = "upsert" => Len(t.metrics) >= 1
    /\ BagCardinality(t.working) <= MaxTrackStates
    /\ track_states' = IF t.raised THEN Rollback(track_states, t.working)
                       ELSE t.working
    /\ cycle' = [status |-> IF t.raised THEN "raised" ELSE "ok", fault |-> fault,
                 metrics |-> t.metrics, evicted |-> t.evicted]
    /\ UNCHANGED <<now, detection_rows>>

ProcessTracksRun == \E dets \in GetRecentDetections(now), fault \in Faults :
                       ProcessTracks(dets, fault)

\* The advances taken since the start (the clock starts at second 60).
TicksTaken ==
    LET elapsed == now - Seconds(60)
        hour == Seconds(WINDOW_HOURS * SecondsPerHour)
    IN  (elapsed \div hour) + ((elapsed % hour) \div Seconds(60))

\* The wall clock advances.
Tick(dt) ==
    /\ TicksTaken < MaxTicks
    /\ now' = now + dt
    /\ cycle' = NoCycle
    /\ UNCHANGED <<detection_rows, track_states>>

ClockTick == \E dt \in TickSizes : Tick(dt)

-----------------------------------------------------------------------------
(* process_tracks run by several processes at once.  The script takes no   *)
(* lock; each execution is one PostgreSQL transaction at READ COMMITTED:   *)
(* it sees committed rows and its own changes, and a statement that        *)
(* touches a row another open transaction has deleted or inserted waits    *)
(* until that transaction ends.                                            *)

Workers == {1, 2}

Idle == [pc |-> "idle", metrics |-> <<>>, removed |-> EmptyBag, added |-> EmptyBag]

NoSessions == sessions = [w \in Workers |-> Idle]

\* Two rows collide on unique_track_zone.
SameKey(r1, r2) ==
    /\ r1.zone_id # None
    /\ r1.camera_id = r2.camera_id
    /\ r1.track_id = r2.track_id
    /\ r1.zone_id = r2.zone_id

\* The rows other open transactions have deleted or inserted.
HeldByOthers(w) ==
    UNION {BagToSet(sessions[v].removed) \cup BagToSet(sessions[v].added) :
           v \in Workers \ {w}}

\* Lines 109-123: the session opens, the window is read, the metrics list
\* is built.
SessionRead(w) ==
    /\ sessions[w].pc = "idle"
    /\ \E dets \in GetRecentDetections(now) :
          sessions' = [sessions EXCEPT ![w] =
              [Idle EXCEPT !.pc = "read",
                           !.metrics = MetricsOf(dets, GroupKeys(dets, 1, <<>>), 1)]]
    /\ UNCHANGED <<now, detection_rows, track_states, cycle>>

\* Lines 126-129: the DELETE runs at once.  It waits while a row it matches
\* is deleted by another open transaction.
SessionDelete(w) ==
    LET matched == [r \in {x \in BagToSet(track_states) :
                                x.last_time < Cutoff(now)} |-> track_states[r]]
    IN  /\ sessions[w].pc = "read"
        /\ \A v \in Workers \ {w} :
              BagToSet(sessions[v].removed) \cap BagToSet(matched) = {}
        /\ sessions' = [sessions EXCEPT ![w].pc = "deleted", ![w].removed = matched]
        /\ UNCHANGED <<now, detection_rows, track_states, cycle>>

\* Lines 131-134, first half: session.commit() flushes the pending INSERTs.
\* An INSERT that collides with a row of another open transaction waits; one
\* that collides with a visible row raises, and the except branch rolls
\* the transaction back.
SessionFlush(w) ==
    LET me == sessions[w]
        visible == track_states (-) me.removed
        rows == {MergedRow(me.metrics[i]) : i \in 1 .. Len(me.metrics)}
        flushed == Flush(me.metrics, 1, visible, 0)
    IN  /\ me.pc = "deleted"
        /\ \A r \in rows, o \in HeldByOthers(w) : ~SameKey(r, o)
        /\ IF flushed.raised
           THEN /\ sessions' = [sessions EXCEPT ![w] = Idle]
                /\ cycle' = [status |-> "raised", fault |-> "none",
                             metrics |-> me.metrics, evicted |-> 0]
           ELSE /\ sessions' = [sessions EXCEPT ![w].pc = "flushed",
                                                ![w].added = flushed.table (-) visible]
                /\ UNCHANGED cycle
        /\ UNCHANGED <<now, detection_rows, track_states>>

\* Line 134, second half: COMMIT makes the deletions and insertions of the
\* transaction visible to all.
SessionCommit(w) ==
    LET me == sessions[w]
        committed == (track_states (-) me.removed) (+) me.added
    IN  /\ me.pc = "flushed"
        /\ BagCardinality(committed) <= MaxTrackStates
        /\ track_states' = committed
        /\ sessions' = [sessions EXCEPT ![w] = Idle]
        /\ cycle' = [status |-> "ok", fault |-> "none", metrics |-> me.metrics,
                     evicted |-> BagCardinality(me.removed)]
        /\ UNCHANGED <<now, detection_rows>>

-----------------------------------------------------------------------------
(* VideoProcessor.run (cv_pipeline/video_processor.py): the frame loop     *)
(* that feeds the tracker and writes the detections table                  *)

MaxVideoFrames == 3    \* frames a run reads

\* No run.
NoVideo == [running |-> FALSE, save_to_db |-> FALSE, frame_id |-> 0,
            unique_tracks |-> {}, total_unique |-> 0, run |-> 0, started |-> 0]

\* What detector.detect returns for a frame: dicts with 'class',
\* 'confidence' and 'bbox' (detector.py), of a person or a car at one of two
\* places, and a person the tracker ignores for its confidence.
VideoDetectionSet ==
    [bbox : {BoxA, BoxApart}, confidence : {90}, class : {"person", "car"}]
    \cup [bbox : {BoxA}, confidence : {50}, class : {"person"}]
VideoDetectionLists == SeqsUpTo(VideoDetectionSet, MaxDets)

\* obj.get('class') == 'person' (line 72)
IsPerson(obj) == obj.class = "person"

\* As AlreadySaved, without the look-up in unique_tracks.
AlreadySavedNever(tid, unique_tracks) == tid = 0

\* tid == 0 or tid in unique_tracks (line 76)
AlreadySaved(tid, unique_tracks) == tid = 0 \/ tid \in unique_tracks

\* The Detection of lines 83-90, without the columns id and confidence,
\* which nothing reads.  str() of the box list is text that json.loads
\* reads back as the list.
DetectionRecord(obj, tid, clock) ==
    [camera_id |-> "CAM_001", track_id |-> tid, timestamp |-> clock,
     class_name |-> "person",
     bbox |-> [form |-> "json", coords |-> Nums(obj.bbox)]]

\* Lines 71-91: the loop over the tracked objects from object i on; st holds
\* unique_tracks, total_unique and the records added to the session.
RECURSIVE SaveLoop(_, _, _, _)
SaveLoop(tracked, i, st, clock) ==
    IF i > Len(tracked) THEN st
    ELSE IF ~IsPerson(tracked[i]) THEN SaveLoop(tracked, i + 1, st, clock)
    ELSE IF AlreadySaved(tracked[i].track_id, st.unique_tracks)
         THEN SaveLoop(tracked, i + 1, st, clock)
    ELSE SaveLoop(tracked, i + 1,
                  [unique_tracks |-> st.unique_tracks \cup {tracked[i].track_id},
                   total_unique |-> st.total_unique + 1,
                   added |-> st.added
                             \cup {DetectionRecord(tracked[i], tracked[i].track_id,
                                                   clock)}],
                  clock)

\* VideoProcessor("CAM_001", source).run(save_to_db) has opened the source:
\* the tracker is new, the table empty, nothing saved yet.
VideoInit ==
    \E save_to_db \in BOOLEAN :
        video = [running |-> TRUE, save_to_db |-> save_to_db, frame_id |-> 0,
                 unique_tracks |-> {}, total_unique |-> 0,
                 run |-> 1, started |-> now]

\* One pass of the loop of lines 58-114 on a frame in which the detector
\* finds dets: the tracker is updated, the people not saved before are added
\* and committed, and the loop sleeps a frame time.
VideoFrame(dets) ==
    /\ video.running
    /\ video.frame_id < MaxVideoFrames
    /\ Update(dets, video.frame_id + 1)
    /\ \E saved \in {IF video.save_to_db /\ ret'.objs # <<>>
                     THEN SaveLoop(ret'.objs, 1,
                                   [unique_tracks |-> video.unique_tracks,
                                    total_unique |-> video.total_unique,
                                    added |-> {}], now)
                     ELSE [unique_tracks |-> video.unique_tracks,
                           total_unique |-> video.total_unique,
                           added |-> {}]} :
          /\ detection_rows' = detection_rows \cup saved.added
          /\ video' = [video EXCEPT !.frame_id = @ + 1,
                                    !.unique_tracks = saved.unique_tracks,
                                    !.total_unique = saved.total_unique]
    /\ now' = now + 1
    /\ UNCHANGED <<track_states, cycle, sessions, probe, agentVars>>

VideoFrameRun == \E dets \in VideoDetectionLists : VideoFrame(dets)

\* The source ends, or 'q' is pressed: the loop is left and total_unique is
\* printed (lines 60-61, 112-113, 116-123).
VideoStop ==
    /\ video.running
    /\ video' = [video EXCEPT !.running = FALSE]
    /\ UNCHANGED <<trackerVars, storeVars, sessions, probe, agentVars>>

MaxRuns == 2    \* runs on the camera

\* After a run has ended, VideoProcessor("CAM_001", source).run(save_to_db)
\* is started again (the script of lines 126-128): a new VideoProcessor with
\* a new ByteTracker and frame_id 0, over the detections table as the
\* earlier run left it.
VideoRestart ==
    /\ ~video.running
    /\ video.run >= 1
    /\ video.run < MaxRuns
    /\ \E save_to_db \in BOOLEAN :
          video' = [running |-> TRUE, save_to_db |-> save_to_db, frame_id |-> 0,
                    unique_tracks |-> {}, total_unique |-> 0,
                    run |-> video.run + 1, started |-> now]
    /\ tracks' = <<>>
    /\ next_id' = 1
    /\ call' = [detections |-> <<>>, frame_id |-> 0]
    /\ ret' = [status |-> "none", objs |-> <<>>, new_ids |-> <<>>]
    /\ issued' = <<>>
    /\ prev_max_frame' = 0
    /\ UNCHANGED <<track_thresh, match_thresh, max_age, storeVars, sessions, probe, agentVars>>

-----------------------------------------------------------------------------
(* The loitering agent (agents/loitering_agent.py) over track_states and   *)
(* the alerts table                                                       *)

LOITER_THRESHOLD_SEC == 2
AGENT_MIN_DETECTIONS == 5      \* MIN_DETECTIONS of loitering_agent.py
WINDOW_MINUTES == 15
SecondsPerMinute == 60

\* No run of the agent.
NoAgent == [status |-> "none", selected |-> {}]

AgentIdle == alerts = EmptyBag /\ agent = NoAgent

\* The groups of detections behind the rows the agent finds in track_states:
\* n detections of track t at one place, the first at second 0, the last at
\* second span, the others evenly between.
AgentGroup(t, n, span) ==
    [i \in 1 .. n |->
        [camera_id |-> "CAM_001", track_id |-> t,
         timestamp |-> ((i - 1) * Seconds(span)) \div (n - 1),
         class_name |-> "person", bbox |-> BoxNear]]

\* Their sizes and spans: three detections over 1 s, 60 s and 130 s, five
\* over 2 s, 60 s and 130 s.
AgentGroupShapes ==
    {<<MIN_DETECTIONS, 1>>, <<MIN_DETECTIONS, 60>>,
     <<MIN_DETECTIONS, LoiterThresholdSec + 10>>,
     <<AGENT_MIN_DETECTIONS, LOITER_THRESHOLD_SEC>>,
     <<AGENT_MIN_DETECTIONS, 60>>,
     <<AGENT_MIN_DETECTIONS, LoiterThresholdSec + 10>>}

\* The rows process_tracks writes for them.
AgentTrackStates(t) ==
    {MergedRow(ComputeMetrics(AgentGroup(t, shape[1], shape[2]))[1]) :
        shape \in AgentGroupShapes}

\* The filter of get_loitering_tracks (lines 50-56).
AgentSelects(r, clock) ==
    /\ r.last_time >= clock - Seconds(WINDOW_MINUTES * SecondsPerMinute)
    /\ r.total_dwell_sec >= LOITER_THRESHOLD_SEC
    /\ r.detection_count >= AGENT_MIN_DETECTIONS
    /\ r.status = "active"

\* get_loitering_tracks: one dict per (camera_id, track_id, zone_id,
\* class_name) of the rows that pass the filter, with the greatest
\* last_time, dwell and count of the group.  avg_speed_pxs, which goes into
\* the text of the alert only, is left out.
GetLoiteringTracks(clock) ==
    LET rows == {r \in BagToSet(track_states) : AgentSelects(r, clock)}
        group(r) == {x \in rows : /\ x.camera_id = r.camera_id
                                  /\ x.track_id = r.track_id
                                  /\ x.zone_id = r.zone_id
                                  /\ x.class_name = r.class_name}
    IN  {[camera_id |-> r.camera_id, track_id |-> r.track_id,
          zone_id |-> r.zone_id, class_name |-> r.class_name,
          last_seen |-> MaxOf({x.last_time : x \in group(r)}),
          total_loiter_sec |-> MaxOf({x.total_dwell_sec : x \in group(r)}),
          det_count |-> MaxOf({x.detection_count : x \in group(r)})] : r \in rows}

\* The columns of Alert (models.py lines 24-30) and the keyword arguments
\* create_loitering_alert passes to it (lines 82-93).  The constructor of a
\* declarative class raises TypeError on a keyword that is no attribute of
\* the class.
AlertColumns == {"id", "alert_type", "severity", "camera_id", "timestamp",
                 "extra", "acknowledged"}
AlertKeywords == {"camera_id", "alert_type", "severity", "description",
                  "confidence", "track_id"}
AlertConstructorRaises == ~(AlertKeywords \subseteq AlertColumns)

\* The row create_loitering_alert adds for a track.
LoiteringAlert(track, clock) ==
    [camera_id |-> track.camera_id, alert_type |-> "loitering",
     severity |-> "medium", track_id |-> track.track_id, timestamp |-> clock]

\* main(): the tracks are selected, an alert is created for each and the
\* session commits.  An exception leaves the with block, which closes the
\* session without a commit.
AgentMain ==
    \E selected \in {GetLoiteringTracks(now)} :
        /\ IF selected # {} /\ AlertConstructorRaises
           THEN /\ agent' = [status |-> "raised", selected |-> selected]
                /\ alerts' = alerts
           ELSE /\ agent' = [status |-> "ok", selected |-> selected]
                /\ alerts' = alerts (+) SetToBag({LoiteringAlert(track, now) :
                                                    track \in selected})
        /\ UNCHANGED <<now, detection_rows, track_states, cycle>>

\* The wall clock advances by the window of the agent.
AgentTick ==
    /\ now - Seconds(LoiterThresholdSec + 10)
          < MaxTicks * Seconds(WINDOW_MINUTES * SecondsPerMinute)
    /\ now' = now + Seconds(WINDOW_MINUTES * SecondsPerMinute)
    /\ agent' = NoAgent
    /\ UNCHANGED <<alerts, detection_rows, track_states, cycle>>

\* The store as process_tracks left it at second 130: for each track no row
\* or one of the rows above.
AgentStoreInit ==
    /\ now = Seconds(LoiterThresholdSec + 10)
    /\ detection_rows = {}
    /\ cycle = NoCycle
    /\ \E rows \in SUBSET UNION {AgentTrackStates(t) : t \in TrackIds} :
          /\ \A r1 \in rows, r2 \in rows : r1.track_id = r2.track_id => r1 = r2
          /\ track_states = SetToBag(rows)

-----------------------------------------------------------------------------
(* Direct calls of the pure functions                                      *)

MaxGroup == 4          \* detections in a list given to compute_metrics
MaxCoords == 5         \* entries of a bbox list given to parse_bbox

NoProbe == [fn |-> "none", arg |-> <<>>, done |-> FALSE, out |-> <<>>]

\* Boxes of the detections given to compute_metrics: BoxNear, a list box
\* with the same centre (5, 5) and another corner, and a string that is not
\* JSON.
BoxInner == [form |-> "list", coords |-> Nums(<<3, 4, 7, 6>>)]
BoxGarbled == [form |-> "text", coords |-> <<>>]
GroupBoxes == {BoxNear, BoxInner, BoxGarbled}

\* Their timestamps: second 0, second 120, half a second later, second 130.
GroupTimes == {0, Seconds(LoiterThresholdSec), Seconds(LoiterThresholdSec) + 1,
               Seconds(LoiterThresholdSec + 10)}

GroupDetections ==
    [camera_id : {"CAM_001"}, track_id : {7}, timestamp : GroupTimes,
     class_name : {"person"}, bbox : GroupBoxes]

\* The lists process_tracks hands to compute_metrics: detections of one
\* camera and track in the order of the query, by timestamp.
GroupLists ==
    {g \in SeqsUpTo(GroupDetections, MaxGroup) :
        /\ Len(g) >= 1
        /\ \A i \in 1 .. Len(g) - 1 : g[i].timestamp <= g[i + 1].timestamp}

\* Lists of MIN_DETECTIONS detections in any order, as a caller other than
\* process_tracks may hand them to compute_metrics.
UnorderedGroupLists == [1 .. MIN_DETECTIONS -> GroupDetections]

\* Boxes given to _calculate_iou: every choice of corners on a small grid,
\* so proper, zero-width, zero-height and inverted boxes, pairs that
\* overlap, touch and lie apart.
IouXs == {0, 4, 6, 10}
IouYs == {0, 5, 10}
IouBoxes == {<<x1, y1, x2, y2>> : x1 \in IouXs, y1 \in IouYs,
                                  x2 \in IouXs, y2 \in IouYs}

\* Values of the bbox column given to parse_bbox.
CoordEntries == {Num(1), Num(7), NotNum}
BboxValues ==
    [form : {"list", "json"},
     coords : UNION {[1 .. n -> CoordEntries] : n \in 3 .. MaxCoords}]
    \cup [form : {"dict", "json_dict"},
          coords : [1 .. 4 -> CoordEntries \cup {Missing}]]
    \cup [form : {"text", "null", "number"}, coords : {<<>>}]

\* The calls a run may start with.
ProbeInit ==
    \/ \E g \in GroupLists \cup UnorderedGroupLists :
          probe = [fn |-> "compute_metrics", arg |-> g, done |-> FALSE, out |-> <<>>]
    \/ \E b \in BboxValues :
          probe = [fn |-> "parse_bbox", arg |-> b, done |-> FALSE, out |-> <<>>]
    \/ \E box1 \in IouBoxes, box2 \in IouBoxes :
          probe = [fn |-> "_calculate_iou", arg |-> <<box1, box2>>,
                   done |-> FALSE, out |-> <<>>]

\* compute_metrics(track_dets) runs.
ComputeMetricsCall ==
    /\ probe.fn = "compute_metrics"
    /\ ~probe.done
    /\ probe' = [probe EXCEPT !.done = TRUE, !.out = ComputeMetrics(probe.arg)]
    /\ UNCHANGED sessions

\* parse_bbox(bbox_data) runs.
ParseBboxRun ==
    /\ probe.fn = "parse_bbox"
    /\ ~probe.done
    /\ probe' = [probe EXCEPT !.done = TRUE, !.out = ParseBboxCall(probe.arg)]
    /\ UNCHANGED sessions

\* _calculate_iou(box1, box2) runs, and so does _calculate_iou(box2, box1).
CalculateIouCall ==
    /\ probe.fn = "_calculate_iou"
    /\ ~probe.done
    /\ probe' = [probe EXCEPT
                    !.done = TRUE,
                    !.out = [forward |-> CalculateIou(probe.arg[1], probe.arg[2]),
                             backward |-> CalculateIou(probe.arg[2], probe.arg[1])]]
    /\ UNCHANGED sessions

-----------------------------------------------------------------------------
(* Specifications                                                          *)

\* The associator alone: update calls on one ByteTracker, the store empty.
Init ==
    TrackerInit /\ StoreInit({}) /\ NoSessions /\ probe = NoProbe /\ video = NoVideo /\ AgentIdle

Next == UpdateCall /\ UNCHANGED <<storeVars, callVars>>

Spec == Init /\ [][Next]_vars

\* The associator on a stream that also delivers malformed boxes.
MalformedNext == MalformedUpdateCall /\ UNCHANGED <<storeVars, callVars>>

MalformedSpec == Init /\ [][MalformedNext]_vars

\* The associator on a stream on which two tracks tie.
TieNext == TieUpdateCall /\ UNCHANGED <<storeVars, callVars>>

TieSpec == Init /\ [][TieNext]_vars

\* The associator built with match_thresh = 0.5.
ExampleInit ==
    /\ ExampleTrackerInit /\ StoreInit({}) /\ NoSessions
    /\ probe = NoProbe /\ video = NoVideo /\ AgentIdle

ExampleNext == ExampleUpdateCall /\ UNCHANGED <<storeVars, callVars>>

ExampleSpec == ExampleInit /\ [][ExampleNext]_vars

\* One VideoProcessor.run on camera CAM_001.
VideoSpecInit ==
    /\ TrackerInit /\ StoreInit({}) /\ NoSessions /\ probe = NoProbe
    /\ VideoInit /\ AgentIdle

VideoNext == VideoFrameRun \/ VideoStop

VideoSpec == VideoSpecInit /\ [][VideoNext]_vars

\* Runs of VideoProcessor on camera CAM_001, one after the other.
RerunNext == VideoFrameRun \/ VideoStop \/ VideoRestart

RerunSpec == VideoSpecInit /\ [][RerunNext]_vars

\* The loitering agent over a store the aggregator has filled.
AgentInit ==
    /\ TrackerInit /\ AgentStoreInit /\ NoSessions /\ probe = NoProbe
    /\ video = NoVideo /\ AgentIdle

AgentNext ==
    \/ AgentMain /\ UNCHANGED <<trackerVars, sessions, probe, video>>
    \/ AgentTick /\ UNCHANGED <<trackerVars, sessions, probe, video>>

AgentSpec == AgentInit /\ [][AgentNext]_vars

\* The aggregator alone, over a history of tagged detections: the clock
\* advances and process_tracks runs.
AggNext ==
    \/ ClockTick /\ UNCHANGED <<trackerVars, callVars>>
    \/ ProcessTracksRun /\ UNCHANGED <<trackerVars, callVars>>

AggInit ==
    /\ TrackerInit
    /\ \E history \in Histories : StoreInit(history)
    /\ NoSessions
    /\ probe = NoProbe
    /\ video = NoVideo /\ AgentIdle

AggSpec == AggInit /\ [][AggNext]_vars

\* The aggregator run by two processes, on the histories in which both
\* tracks have enough detections for a track state.
ConcHistories ==
    {h \in Histories :
        \A t \in TrackIds :
            Cardinality({d \in h : d.track_id = t}) >= MIN_DETECTIONS}

ConcInit ==
    /\ TrackerInit
    /\ \E history \in ConcHistories : StoreInit(history)
    /\ NoSessions
    /\ probe = NoProbe
    /\ video = NoVideo /\ AgentIdle

ConcNext ==
    \/ \E w \in Workers : SessionRead(w) /\ UNCHANGED <<trackerVars, probe, video, agentVars>>
    \/ \E w \in Workers : SessionDelete(w) /\ UNCHANGED <<trackerVars, probe, video, agentVars>>
    \/ \E w \in Workers : SessionFlush(w) /\ UNCHANGED <<trackerVars, probe, video, agentVars>>
    \/ \E w \in Workers : SessionCommit(w) /\ UNCHANGED <<trackerVars, probe, video, agentVars>>
    \/ ClockTick /\ UNCHANGED <<trackerVars, callVars>>

ConcSpec == ConcInit /\ [][ConcNext]_vars

\* compute_metrics, parse_bbox and _calculate_iou called on their own.
CallInit ==
    TrackerInit /\ StoreInit({}) /\ NoSessions /\ ProbeInit /\ video = NoVideo /\ AgentIdle

CallNext ==
    \/ ComputeMetricsCall /\ UNCHANGED <<trackerVars, storeVars, video, agentVars>>
    \/ ParseBboxRun /\ UNCHANGED <<trackerVars, storeVars, video, agentVars>>
    \/ CalculateIouCall /\ UNCHANGED <<trackerVars, storeVars, video, agentVars>>

CallSpec == CallInit /\ [][CallNext]_vars

-----------------------------------------------------------------------------
(* Properties of the aggregator, checked under AggSpec                     *)

\* A step of AggSpec that is a process_tracks run: the clock stands still
\* and the run leaves an outcome.
IsCycleStep == now' = now /\ cycle'.status # "none"

\* How many rows of the table carry the key (camera_id, track_id, zone_id).
RowsWithKey(table, camera_id, track_id, zone_id) ==
    BagCardinality([r \in {x \in BagToSet(table) : /\ x.camera_id = camera_id
                                                   /\ x.track_id = track_id
                                                   /\ x.zone_id = zone_id}
                    |-> table[r]])

\* C1: a process_tracks run that directly follows a successful run, with the
\* detection history and the clock unchanged and the store available,
\* succeeds and leaves the track_states rows exactly as the first run left
\* them.
C1_RerunIsIdempotent ==
    [][(IsCycleStep /\ cycle.status = "ok" /\ cycle'.fault = "none")
        => (cycle'.status = "ok" /\ track_states' = track_states)]_vars

\* C2: the store holds at most one row per key (camera_id, track_id,
\* zone_id), keys with a null zone_id included: a run that computes a state
\* for a key already present does not insert a second row.
C2_OneRowPerKey ==
    \A r \in BagToSet(track_states) :
        RowsWithKey(track_states, r.camera_id, r.track_id, r.zone_id) <= 1

\* C3: a run in which a step fails is raised to the caller, and a run that
\* raised leaves the committed track_states rows exactly as they were
\* before it: neither its evictions nor its upserts are visible.
C3_FailedCycleLeavesStore ==
    [][IsCycleStep =>
        /\ (cycle'.fault # "none" => cycle'.status = "raised")
        /\ (cycle'.status = "raised" => track_states' = track_states)]_vars

\* A run failed at its commit, after its eviction DELETE had removed a row
\* that is past the retention span: the row is still there.
C3_Witness ==
    /\ cycle.status = "raised"
    /\ cycle.fault = "commit"
    /\ \E r \in BagToSet(track_states) :
          r.last_time < Cutoff(now)

\* How many copies of a row a table holds.
Copies(table, r) == IF r \in BagToSet(table) THEN table[r] ELSE 0

\* C12: after a successful run at time now no track_states row has a
\* last_time earlier than now - (WINDOW_HOURS + 1) hours, the run reports
\* as evicted exactly the rows that were earlier, and every row at or after
\* that cutoff is still there.
C12_EvictsOnlyPastRetention ==
    [][(IsCycleStep /\ cycle'.status = "ok") =>
        LET cutoff == now - Seconds((WINDOW_HOURS + 1) * SecondsPerHour)
            stale == {r \in BagToSet(track_states) : r.last_time < cutoff}
        IN  /\ \A r \in BagToSet(track_states') : r.last_time >= cutoff
            /\ \A r \in BagToSet(track_states) \ stale :
                  Copies(track_states', r) >= Copies(track_states, r)
            /\ cycle'.evicted =
                  BagCardinality([r \in stale |-> track_states[r]])]_vars

\* A successful run evicted the rows of an earlier run and, the window
\* being empty by then, wrote none.
C12_Witness ==
    /\ cycle.status = "ok"
    /\ cycle.evicted >= 1
    /\ track_states = EmptyBag
    /\ detection_rows # {}

\* The detections of a track of camera CAM_001, and whether the table holds
\* a row of the track.
DetectionsOf(t) ==
    {d \in detection_rows : d.camera_id = "CAM_001" /\ d.track_id = t}
HasTrackState(table, t) ==
    \E r \in BagToSet(table) : r.camera_id = "CAM_001" /\ r.track_id = t

\* C13 as stated: when two tracks of CAM_001 have track_states rows and all
\* their detections lie within the last 2 hours but none within the 1-hour
\* window, a successful run leaves no row of either.
C13_AbsentOnceOutsideWindow ==
    [][(/\ IsCycleStep
        /\ cycle'.status = "ok"
        /\ \A t \in TrackIds :
              /\ HasTrackState(track_states, t)
              /\ \A d \in DetectionsOf(t) :
                    /\ d.timestamp >= now - Seconds(2 * SecondsPerHour)
                    /\ d.timestamp < now - Seconds(WINDOW_HOURS * SecondsPerHour))
        => \A t \in TrackIds : ~HasTrackState(track_states', t)]_vars

\* C13 as amended: when all detections of two tracks of CAM_001 are older
\* than WINDOW_HOURS + 1 = 2 hours, a successful run leaves no row of
\* either.
C13_AbsentOncePastRetention ==
    [][(/\ IsCycleStep
        /\ cycle'.status = "ok"
        /\ \A t \in TrackIds :
              /\ DetectionsOf(t) # {}
              /\ \A d \in DetectionsOf(t) :
                    d.timestamp < now - Seconds(2 * SecondsPerHour))
        => \A t \in TrackIds : ~HasTrackState(track_states', t)]_vars

\* Both tracks have enough detections for a row, all older than 2 hours,
\* and a successful run evicted two rows and left none.  The two rows were
\* one of each track: a run that writes a row writes one for both tracks,
\* and the table had room for one such run only.
C13_Witness ==
    /\ cycle.status = "ok"
    /\ cycle.evicted = 2
    /\ track_states = EmptyBag
    /\ \A t \in TrackIds :
          /\ Cardinality(DetectionsOf(t)) = MIN_DETECTIONS
          /\ \A d \in DetectionsOf(t) :
                d.timestamp < now - Seconds(2 * SecondsPerHour)

\* C11: at most one process_tracks execution reading the detections of a
\* camera is between its read of the window and its commit (every
\* detection here is of camera CAM_001, so any two executions work on the
\* same camera and the same track_states keys).
C11_SingleFlightPerCamera ==
    Cardinality({w \in Workers : sessions[w].pc # "idle"}) <= 1

\* The (camera_id, track_id) pairs with a detection in the window at the
\* clock, and the detections of one of them.
EligibleRows == {d \in detection_rows :
                    /\ d.timestamp >= now - Seconds(WINDOW_HOURS * SecondsPerHour)
                    /\ d.track_id # None}
EligibleKeys == {<<d.camera_id, d.track_id>> : d \in EligibleRows}
RowsOfKey(key) == {d \in EligibleRows : <<d.camera_id, d.track_id>> = key}
MetricsOfKey(metrics, key) ==
    {i \in 1 .. Len(metrics) :
        <<metrics[i].camera_id, metrics[i].track_id>> = key}

\* C15: a run that gets as far as computing builds no track state for a
\* group with fewer than MIN_DETECTIONS = 3 eligible detections and exactly
\* one for every other group, and sparse groups make no run fail: a run
\* without a fault of the store ends in an error only on a refused INSERT.
C15_SparseGroupsSkipped ==
    [][(IsCycleStep /\ cycle'.fault \notin {"read", "compute"}) =>
        /\ \A key \in EligibleKeys :
              Cardinality(MetricsOfKey(cycle'.metrics, key)) =
                  IF Cardinality(RowsOfKey(key)) < 3 THEN 0 ELSE 1
        /\ \A i \in 1 .. Len(cycle'.metrics) :
              <<cycle'.metrics[i].camera_id, cycle'.metrics[i].track_id>>
                  \in EligibleKeys
        /\ (cycle'.fault = "none" /\ cycle'.metrics = <<>>) => cycle'.status = "ok"]_vars

\* A run succeeded on a window that holds a group of exactly two detections
\* and a group of exactly three: it built one track state.
C15_Witness ==
    /\ cycle.status = "ok"
    /\ Len(cycle.metrics) = 1
    /\ \E k1 \in EligibleKeys, k2 \in EligibleKeys :
          /\ Cardinality(RowsOfKey(k1)) = 2
          /\ Cardinality(RowsOfKey(k2)) = 3

\* C24: a run without a fault whose window holds no eligible detection, or
\* only groups of fewer than MIN_DETECTIONS = 3, succeeds: it builds no
\* track state, and all it changes in track_states is the eviction of the
\* rows past the retention span.
C24_SparseWindowOnlyEvicts ==
    [][(/\ IsCycleStep
        /\ cycle'.fault = "none"
        /\ \A key \in EligibleKeys : Cardinality(RowsOfKey(key)) < 3) =>
        LET cutoff == now - Seconds((WINDOW_HOURS + 1) * SecondsPerHour)
            kept == {r \in BagToSet(track_states) : r.last_time >= cutoff}
        IN  /\ cycle'.status = "ok"
            /\ cycle'.metrics = <<>>
            /\ track_states' = [r \in kept |-> track_states[r]]
            /\ cycle'.evicted = BagCardinality(track_states)
                                  - BagCardinality(track_states')]_vars

\* A run succeeded on a window that holds detections, none of them in a
\* group of three: it built nothing, and the row an earlier run had written
\* is still there.
C24_Witness ==
    /\ cycle.status = "ok"
    /\ cycle.fault = "none"
    /\ cycle.metrics = <<>>
    /\ cycle.evicted = 0
    /\ EligibleRows # {}
    /\ \A key \in EligibleKeys : Cardinality(RowsOfKey(key)) < 3
    /\ track_states # EmptyBag

C36_StatusNeverExited ==
    [][/\ \A r \in BagToSet(track_states') : r.status \in {"active", "loitering"}
       /\ (IsCycleStep /\ cycle'.status = "ok") =>
              \A r \in BagToSet(track_states) :
                  (/\ RowsOfKey(<<r.camera_id, r.track_id>>) = {}
                   /\ r.last_time >= now - Seconds((WINDOW_HOURS + 1) * SecondsPerHour))
                      => Copies(track_states', r) = Copies(track_states, r)]_vars

\* After a successful run the store holds the 'active' row of a track none
\* of whose detections is in the window any more.
C36_Witness ==
    /\ cycle.status = "ok"
    /\ \E r \in BagToSet(track_states) :
          /\ r.status = "active"
          /\ RowsOfKey(<<r.camera_id, r.track_id>>) = {}
          /\ r.last_time < now - Seconds(WINDOW_HOURS * SecondsPerHour)

\* C37: a run leaves every copy of a track_states row whose track has
\* fewer than MIN_DETECTIONS = 3 eligible detections in the window and
\* whose last_time is at or after now - (WINDOW_HOURS + 1) hours exactly as
\* it was, so the row keeps its status after the track's detections have
\* left the window.
C37_SparseTrackRowUntouched ==
    [][IsCycleStep =>
        \A r \in BagToSet(track_states) :
            (/\ Cardinality(RowsOfKey(<<r.camera_id, r.track_id>>)) < 3
             /\ r.last_time >= now - Seconds((WINDOW_HOURS + 1) * SecondsPerHour))
                => /\ r \in BagToSet(track_states')
                   /\ track_states'[r] = track_states[r]]_vars

\* After a successful run the store holds a row that counts three or
\* more detections of a track of which one or two are still in the window.
C37_Witness ==
    /\ cycle.status = "ok"
    /\ \E r \in BagToSet(track_states) :
          /\ Cardinality(RowsOfKey(<<r.camera_id, r.track_id>>)) \in {1, 2}
          /\ r.detection_count >= 3

\* C34: after a successful run the store holds at most one row per
\* (camera_id, track_id): a row written for the track by an earlier run,
\* with the same or with another zone_id, does not remain next to the new
\* one.
C34_OneRowPerTrack ==
    cycle.status = "ok" =>
        \A r1 \in BagToSet(track_states), r2 \in BagToSet(track_states) :
            (r1.camera_id = r2.camera_id /\ r1.track_id = r2.track_id) =>
                (r1 = r2 /\ track_states[r1] = 1)

\* C19: a run in which computing the metrics of one group raises still
\* succeeds: the track states of the other groups are committed.
C19_GroupFailureTolerated ==
    [][(IsCycleStep /\ cycle'.fault = "compute") => cycle'.status = "ok"]_vars

-----------------------------------------------------------------------------
(* Properties of compute_metrics and parse_bbox, checked under CallSpec    *)

\* compute_metrics has returned a dict.
MetricsReturned ==
    probe.fn = "compute_metrics" /\ probe.done /\ probe.out # <<>>

\* The span between the earliest and the latest timestamp of the argument.
ProbeSpan ==
    LET times == {probe.arg[i].timestamp : i \in 1 .. Len(probe.arg)}
    IN  (CHOOSE t \in times : \A u \in times : u <= t)
        - (CHOOSE t \in times : \A u \in times : t <= u)

\* C14: the status of a computed track state is 'loitering' exactly when
\* the dwell in whole seconds exceeds 120, that is when first and last
\* detection are 121 seconds or more apart, and 'active' otherwise: 120
\* seconds, or 120 and a half, is 'active', 130 is 'loitering'.
C14_LoiteringAboveThreshold ==
    MetricsReturned =>
        /\ probe.out[1].status \in {"loitering", "active"}
        /\ probe.out[1].status = "loitering" <=> ProbeSpan >= Seconds(121)

\* At least MIN_DETECTIONS detections from second 0 to second 130:
\* 'loitering'.
C14_Witness ==
    /\ MetricsReturned
    /\ probe.arg[1].timestamp = 0
    /\ ProbeSpan = Seconds(130)
    /\ probe.out[1].status = "loitering"

\* C16: a computed track state has enter_time the least and last_time the
\* greatest timestamp of the group, enter_time <= last_time,
\* total_dwell_sec the whole seconds of last_time - enter_time (the
\* fraction dropped) and detection_count the size of the group, at least 1.
C16_TimesDwellAndCount ==
    MetricsReturned =>
        LET m == probe.out[1]
            times == {probe.arg[i].timestamp : i \in 1 .. Len(probe.arg)}
        IN  /\ m.enter_time \in times /\ \A t \in times : m.enter_time <= t
            /\ m.last_time \in times /\ \A t \in times : t <= m.last_time
            /\ m.enter_time <= m.last_time
            /\ Seconds(m.total_dwell_sec) <= m.last_time - m.enter_time
            /\ m.last_time - m.enter_time < Seconds(m.total_dwell_sec + 1)
            /\ m.detection_count = Len(probe.arg)
            /\ m.detection_count >= 1

\* A group whose first and last detection are 120 seconds and a half apart:
\* total_dwell_sec is 120.
C16_Witness ==
    /\ MetricsReturned
    /\ ProbeSpan = Seconds(120) + 1
    /\ probe.out[1].total_dwell_sec = 120

\* C17: compute_metrics on a list of exactly one detection returns a track
\* state with total_dwell_sec 0 and avg_speed 0.
C17_SingleDetectionTrackState ==
    (probe.fn = "compute_metrics" /\ probe.done /\ Len(probe.arg) = 1) =>
        /\ probe.out # <<>>
        /\ probe.out[1].total_dwell_sec = 0
        /\ probe.out[1].avg_speed = <<0, 1>>

\* Twice the centre of the box parse_bbox returns.
Centre2(bbox_data) ==
    LET b == ParseBbox(bbox_data) IN <<b[1] + b[3], b[2] + b[4]>>

\* C18: positions are box centres, so a computed track state of a group
\* whose boxes all have the same centre has avg_speed 0.
C18_SpeedFromCentres ==
    (MetricsReturned /\ \A i \in 1 .. Len(probe.arg) :
                           Centre2(probe.arg[i].bbox) = Centre2(probe.arg[1].bbox))
        => probe.out[1].avg_speed = <<0, 1>>

\* What C20 says parse_bbox returns.
ExpectedBbox(b) ==
    LET first4 == [i \in 1 .. 4 |-> b.coords[i]]
    IN  IF b.form \in {"list", "json"} /\ Len(b.coords) >= 4
           /\ \A i \in 1 .. 4 : first4[i].kind = "num"
        THEN [i \in 1 .. 4 |-> first4[i].val]
        ELSE IF b.form \in {"dict", "json_dict"}
                /\ \A i \in 1 .. 4 : first4[i].kind # "text"
        THEN [i \in 1 .. 4 |-> IF first4[i].kind = "num" THEN first4[i].val ELSE 0]
        ELSE <<0, 0, 0, 0>>

\* C20: parse_bbox never raises.  For a list of at least four numbers, or a
\* JSON string of one, it returns the first four; for a dict (or a JSON
\* string of one) the values under x1, y1, x2, y2, 0 for a corner that is
\* missing; for anything else (a string that is not JSON, a short list, an
\* entry that is not a number, None) four zeros.  compute_metrics still
\* returns a track state for a group of MIN_DETECTIONS or more that holds an
\* unparseable box, and one whose boxes are all unparseable, every position
\* being (0, 0), has avg_speed 0.
C20_ParseBboxNeverRaises ==
    /\ (probe.fn = "parse_bbox" /\ probe.done) =>
          /\ ~probe.out.raised
          /\ probe.out.value = ExpectedBbox(probe.arg)
    /\ (probe.fn = "compute_metrics" /\ probe.done
            /\ Len(probe.arg) >= 3
            /\ \E i \in 1 .. Len(probe.arg) : probe.arg[i].bbox.form = "text") =>
          /\ probe.out # <<>>
          /\ (\A i \in 1 .. Len(probe.arg) : probe.arg[i].bbox.form = "text")
                => probe.out[1].avg_speed = <<0, 1>>

\* parse_bbox was given a list whose second entry is not a number and
\* returned four zeros.
C20_Witness ==
    /\ probe.fn = "parse_bbox"
    /\ probe.done
    /\ probe.arg.form = "list"
    /\ Len(probe.arg.coords) = 4
    /\ probe.arg.coords[2] = NotNum
    /\ probe.out = [raised |-> FALSE, value |-> <<0, 0, 0, 0>>]

\* _calculate_iou and its call with the arguments swapped have returned.
IouReturned == probe.fn = "_calculate_iou" /\ probe.done

\* A box with x1 < x2 and y1 < y2.
Proper(box) == box[1] < box[3] /\ box[2] < box[4]

\* Two proper boxes share a region of positive area.
Overlap(box1, box2) ==
    /\ box1[1] < box2[3] /\ box2[1] < box1[3]
    /\ box1[2] < box2[4] /\ box2[2] < box1[4]

\* C21: _calculate_iou is symmetric, IoU(a, b) = IoU(b, a) for all boxes,
\* and IoU(b, b) is exactly 1 for every box with x1 < x2 and y1 < y2.
C21_IouSymmetricAndReflexive ==
    IouReturned =>
        /\ probe.out.forward = probe.out.backward
        /\ (probe.arg[1] = probe.arg[2] /\ Proper(probe.arg[1])) =>
              /\ probe.out.forward[1] = probe.out.forward[2]
              /\ probe.out.forward[2] > 0

\* _calculate_iou on two proper boxes of different size that overlap in
\* part has returned a value strictly between 0 and 1.
C21_Witness ==
    /\ IouReturned
    /\ probe.arg = <<(<<0, 0, 10, 10>>), (<<4, 5, 10, 10>>)>>
    /\ probe.out.forward = <<30, 100>>
    /\ probe.out.backward = <<30, 100>>

\* C22: _calculate_iou returns 0 when the boxes do not overlap and when
\* either box has non-positive area (zero width or height, or inverted
\* corners), whatever the other box; its value is never negative and never
\* above 1, and the division is by a positive union only.
C22_IouZeroAndBounded ==
    IouReturned =>
        \A iou \in {probe.out.forward} :
            /\ iou[2] > 0
            /\ 0 <= iou[1]
            /\ iou[1] <= iou[2]
            /\ (~Proper(probe.arg[1]) \/ ~Proper(probe.arg[2])
                   \/ ~Overlap(probe.arg[1], probe.arg[2])) => iou[1] = 0

\* _calculate_iou on a proper box and an inverted box inside it has
\* returned 0.
C22_Witness ==
    /\ IouReturned
    /\ probe.arg = <<(<<0, 0, 10, 10>>), (<<6, 5, 4, 10>>)>>
    /\ probe.out.forward = <<0, 1>>

\* C30: in compute_metrics a consecutive pair whose elapsed time is zero or
\* negative contributes speed 0: avg_speed is a fraction with a positive
\* denominator, it is never negative, and it is 0 for a group none of whose
\* consecutive pairs has a positive elapsed time.
C30_NoSpeedWithoutElapsedTime ==
    MetricsReturned =>
        /\ probe.out[1].avg_speed[2] > 0
        /\ probe.out[1].avg_speed[1] >= 0
        /\ (\A i \in 2 .. Len(probe.arg) :
                probe.arg[i].timestamp <= probe.arg[i - 1].timestamp)
              => probe.out[1].avg_speed = <<0, 1>>

\* compute_metrics was given three detections in descending order of time
\* whose positions differ, and returned avg_speed 0.
C30_Witness ==
    /\ MetricsReturned
    /\ Len(probe.arg) = 3
    /\ probe.arg[1].timestamp > probe.arg[2].timestamp
    /\ probe.arg[2].timestamp > probe.arg[3].timestamp
    /\ probe.arg[1].bbox = BoxNear
    /\ probe.arg[2].bbox = BoxInner
    /\ probe.out[1].avg_speed = <<0, 1>>

\* C31: the zone_id of a computed track state is decided by avg_speed
\* alone: 1 exactly when avg_speed < 5, null otherwise, also at exactly 5,
\* whatever the boxes of the group are.
C31_ZoneFromSpeedAlone ==
    MetricsReturned =>
        /\ probe.out[1].zone_id \in {1, None}
        /\ probe.out[1].zone_id = 1 <=>
              probe.out[1].avg_speed[1] < 5 * probe.out[1].avg_speed[2]

\* compute_metrics returned avg_speed exactly 5 (5 pixels in half a second,
\* then no movement) and a null zone_id.
C31_Witness ==
    /\ MetricsReturned
    /\ Len(probe.arg) = 3
    /\ probe.out[1].avg_speed = <<5, 1>>
    /\ probe.out[1].zone_id = None

-----------------------------------------------------------------------------
(* Properties of the associator, checked under Spec (C10: MalformedSpec)   *)

TrackIdsOf(objs) == {objs[i].track_id : i \in 1 .. Len(objs)}

\* C4: the ids a tracker allocates are positive and strictly increasing in
\* allocation order, so none is handed out twice, also not after the track
\* that had it was evicted.
C4_IdsStrictlyIncrease ==
    \A i \in 1 .. Len(issued) :
        /\ issued[i] > 0
        /\ \A j \in 1 .. i - 1 : issued[j] < issued[i]

\* The latest call allocated id 2 with track 1 gone, and its frame_id is too
\* low for it to have evicted anything: track 1 was evicted by an earlier
\* call.
C4_Witness ==
    /\ issued = <<1, 2>>
    /\ ret.new_ids = <<2>>
    /\ DOMAIN tracks = {2}
    /\ call.frame_id <= MaxFrame

\* C5: after an update that returns, the active set is exactly the tracks,
\* active before or created in the call, with frame_id - last_seen <
\* max_age, where last_seen is frame_id for the tracks the call matched or
\* created and the stored value for the others.
C5_EvictedExactlyAtMaxAge ==
    [][ret'.status = "ok" =>
        LET frame_id == call'.frame_id
            touched == TrackIdsOf(ret'.objs)
            last_seen(t) == IF t \in touched THEN frame_id ELSE tracks[t].last_seen
        IN  /\ DOMAIN tracks' =
                  {t \in DOMAIN tracks \cup touched : frame_id - last_seen(t) < max_age}
            /\ \A t \in DOMAIN tracks' : tracks'[t].last_seen = last_seen(t)]_vars

\* The call at frame max_age + 1 kept a track last seen at frame 2 (29
\* frames ago) and removed one last seen at frame 1 (30 frames ago).
C5_Witness ==
    /\ ret.status = "ok"
    /\ call.frame_id = max_age + 1
    /\ \E t \in DOMAIN tracks : tracks[t].last_seen = 2
    /\ \E i \in 1 .. Len(issued) : issued[i] \notin DOMAIN tracks

\* C6: a detection with confidence <= track_thresh is never tracked: every
\* returned object has confidence > track_thresh, a call that returns
\* returns exactly the detections above the threshold, in order, and every
\* track the call created or refreshed carries the box of a detection above
\* the threshold.
C6_LowConfidenceNeverTracked ==
    [][LET dets == call'.detections
           above == SelectSeq(dets, LAMBDA d : ~(d.confidence <= track_thresh))
       IN  /\ \A i \in 1 .. Len(ret'.objs) : ~(ret'.objs[i].confidence <= track_thresh)
           /\ ret'.status = "ok" =>
                 /\ Len(ret'.objs) = Len(above)
                 /\ \A i \in 1 .. Len(above) :
                       /\ ret'.objs[i].bbox = above[i].bbox
                       /\ ret'.objs[i].confidence = above[i].confidence
           /\ \A t \in DOMAIN tracks' :
                 (t \notin DOMAIN tracks \/ tracks'[t] # tracks[t]) =>
                     \E i \in 1 .. Len(above) :
                         tracks'[t] = [bbox |-> above[i].bbox,
                                       last_seen |-> call'.frame_id]]_vars

\* A call held a detection whose confidence equals track_thresh next to one
\* above it, and returned only the latter.
C6_Witness ==
    /\ ret.status = "ok"
    /\ \E i \in 1 .. Len(call.detections) :
          call.detections[i].confidence = track_thresh
    /\ Len(ret.objs) = 1
    /\ Len(call.detections) = 2

\* C7: each detection above track_thresh is tagged with a track whose IoU
\* with it is the highest among the active tracks whose IoU strictly exceeds
\* match_thresh; when there is none (an IoU equal to match_thresh does not
\* count) it is tagged with a fresh id, the tracker's next_id.  "Active" is
\* the track set as the earlier detections of the same call left it.
C7_BestIouMatchOrNewTrack ==
    [][ret'.status = "ok" =>
        \A above \in {SelectSeq(call'.detections,
                                 LAMBDA d : d.confidence > track_thresh)} :
        \A i \in 1 .. Len(ret'.objs) :
        \A before \in {DetectionLoop(SubSeq(above, 1, i - 1), 1,
                                     LoopStart(tracks, next_id), call'.frame_id)} :
              LET obj == ret'.objs[i]
                  iou(t) == CalculateIou(obj.bbox, before.tracks[t].bbox)
                  candidates == {t \in DOMAIN before.tracks :
                                    IouExceeds(iou(t), match_thresh)}
              IN  IF candidates = {}
                  THEN /\ obj.track_id = before.next_id
                       /\ obj.track_id \notin DOMAIN before.tracks
                       /\ \A k \in 1 .. Len(issued) : issued[k] # obj.track_id
                       /\ \A k \in 1 .. Len(before.new_ids) :
                             before.new_ids[k] # obj.track_id
                  ELSE /\ obj.track_id \in candidates
                       /\ \A u \in candidates :
                             ~IouGreater(iou(u), iou(obj.track_id))]_vars

\* Tracks 1 and 2 are active, track 1 holds BoxB (IoU 8/9 with BoxC), and a
\* call with the single detection BoxC was tagged 2: track 2, visited
\* after track 1, can only have won with a strictly higher IoU.
C7_Witness ==
    /\ ret.status = "ok"
    /\ DOMAIN tracks = {1, 2}
    /\ tracks[1].bbox = BoxB
    /\ Len(call.detections) = 1
    /\ Len(ret.objs) = 1
    /\ ret.objs[1].bbox = BoxC
    /\ ret.objs[1].track_id = 2

\* C9: an update whose frame_id is lower than that of an earlier call is
\* rejected with an error and changes neither tracks nor next_id.
C9_OutOfOrderFrameRejected ==
    [][call'.frame_id < prev_max_frame' =>
        (ret'.status = "raised" /\ tracks' = tracks /\ next_id' = next_id)]_vars

\* C10: an update does not raise, and a call holding a detection with a
\* malformed box (inverted corners, or not four coordinates) still returns
\* every detection above track_thresh.
C10_MalformedBoxTolerated ==
    /\ ret.status # "raised"
    /\ (\E i \in 1 .. Len(call.detections) :
            call.detections[i].bbox \in {BoxInv, BoxShort})
        => Len(ret.objs) = Len(SelectSeq(call.detections,
                                         LAMBDA d : d.confidence > track_thresh))

\* The positions in objs tagged with track t.
TaggedWith(objs, t) == {i \in 1 .. Len(objs) : objs[i].track_id = t}

\* C28: when two or more detections of one update call are tagged with the
\* same track, they are returned in input order, each later one exceeds
\* match_thresh against the box the one before it wrote (not against the
\* box the track had before the call), and after the call the track holds
\* the box of the last of them and last_seen = frame_id.
C28_LastWriteInInputOrderWins ==
    [][ret'.status = "ok" =>
        \A objs \in {ret'.objs} :
        \A above \in {SelectSeq(call'.detections,
                                 LAMBDA d : d.confidence > track_thresh)} :
        \A t \in TrackIdsOf(objs) :
        \A same \in {TaggedWith(objs, t)} :
            Cardinality(same) >= 2 =>
                /\ \A i \in same : objs[i].bbox = above[i].bbox
                /\ \A i \in same : \A j \in same :
                      (j < i /\ \A k \in same : ~(j < k /\ k < i)) =>
                          IouExceeds(CalculateIou(objs[i].bbox, objs[j].bbox),
                                     match_thresh)
                /\ t \in DOMAIN tracks'
                /\ \A last \in same :
                      (\A k \in same : k <= last) =>
                          tracks'[t] = [bbox |-> objs[last].bbox,
                                        last_seen |-> call'.frame_id]]_vars

\* Track 1 was active, and a call with BoxC followed by BoxB returned both
\* as track 1 and allocated nothing; the track holds BoxB.  BoxB against
\* BoxA has an IoU of exactly match_thresh, which is no match.
C28_Witness ==
    /\ ret.status = "ok"
    /\ ret.new_ids = <<>>
    /\ Len(ret.objs) = 2
    /\ ret.objs[1].bbox = BoxC /\ ret.objs[1].track_id = 1
    /\ ret.objs[2].bbox = BoxB /\ ret.objs[2].track_id = 1
    /\ DOMAIN tracks = {1}
    /\ tracks[1] = [bbox |-> BoxB, last_seen |-> call.frame_id]

\* C29: a detection returned with the id of a track that was active before
\* the call leaves that track with last_seen = frame_id and the box of a
\* detection of the call tagged with it (its own, when it is the only one);
\* a call all of whose detections matched allocates no id and leaves
\* next_id unchanged, and next_id grows by one per id the call did
\* allocate; every track the call tagged nothing with that is still active
\* has its bbox and last_seen unchanged.
C29_MatchRefreshesOnlyItsTrack ==
    [][ret'.status = "ok" =>
        \A objs \in {ret'.objs} :
        \A touched \in {TrackIdsOf(objs)} :
            /\ \A i \in 1 .. Len(objs) :
                  objs[i].track_id \in DOMAIN tracks =>
                      /\ objs[i].track_id \in DOMAIN tracks'
                      /\ tracks'[objs[i].track_id].last_seen = call'.frame_id
                      /\ \E k \in TaggedWith(objs, objs[i].track_id) :
                            tracks'[objs[i].track_id].bbox = objs[k].bbox
            /\ touched \subseteq DOMAIN tracks =>
                  (next_id' = next_id /\ ret'.new_ids = <<>>)
            /\ next_id' = next_id + Cardinality(touched \ DOMAIN tracks)
            /\ \A u \in DOMAIN tracks' \ touched :
                  u \in DOMAIN tracks /\ tracks'[u] = tracks[u]]_vars

\* Tracks 1 and 2 were active, and a call with a single detection returned
\* it as track 1 and allocated nothing: track 1 holds its box and the
\* frame_id of the call, track 2 an earlier last_seen.
C29_Witness ==
    /\ ret.status = "ok"
    /\ ret.new_ids = <<>>
    /\ Len(ret.objs) = 1
    /\ ret.objs[1].track_id = 1
    /\ DOMAIN tracks = {1, 2}
    /\ next_id = 3
    /\ tracks[1] = [bbox |-> ret.objs[1].bbox, last_seen |-> call.frame_id]
    /\ tracks[2].last_seen < call.frame_id

\* C33: update never tags a detection with the id of a track that has
\* reached its age limit at the frame of the call: an object returned with
\* the id of a track that was active before the call finds that track with
\* frame_id - last_seen < max_age, whether or not the calls skip frame ids.
C33_ExpiredTrackNotRevived ==
    [][ret'.status = "ok" =>
        \A i \in 1 .. Len(ret'.objs) :
            ret'.objs[i].track_id \in DOMAIN tracks =>
                call'.frame_id - tracks[ret'.objs[i].track_id].last_seen
                    < max_age]_vars

-----------------------------------------------------------------------------
(* Properties of the associator built with match_thresh = 0.5, checked     *)
(* under ExampleSpec                                                       *)

\* C23: on a tracker with match_thresh 0.5 and max_age 30, an update at
\* frame 1 with the box (0, 0, 10, 10) at confidence 0.9 returns it as track
\* 1; the update at frame 2 with the box (1, 1, 11, 11) at confidence 0.9
\* that follows returns it as track 1 again and allocates no id; the update
\* at frame 40 with no detections that follows leaves track 1 out of the
\* active set.
C23_ShiftedBoxKeepsIdThenExpires ==
    [][(match_thresh = 50 /\ max_age = 30) =>
        /\ (/\ DOMAIN tracks = {} /\ next_id = 1
            /\ call' = [detections |-> <<[bbox |-> <<0, 0, 10, 10>>, confidence |-> 90]>>,
                        frame_id |-> 1])
              => /\ ret'.status = "ok"
                 /\ Len(ret'.objs) = 1
                 /\ ret'.objs[1].bbox = <<0, 0, 10, 10>>
                 /\ ret'.objs[1].track_id = 1
        /\ (/\ DOMAIN tracks = {1} /\ next_id = 2
            /\ tracks[1] = [bbox |-> <<0, 0, 10, 10>>, last_seen |-> 1]
            /\ call' = [detections |-> <<[bbox |-> <<1, 1, 11, 11>>, confidence |-> 90]>>,
                        frame_id |-> 2])
              => /\ ret'.status = "ok"
                 /\ Len(ret'.objs) = 1
                 /\ ret'.objs[1].bbox = <<1, 1, 11, 11>>
                 /\ ret'.objs[1].track_id = 1
                 /\ next_id' = 2
                 /\ ret'.new_ids = <<>>
        /\ (/\ DOMAIN tracks = {1}
            /\ tracks[1] = [bbox |-> <<1, 1, 11, 11>>, last_seen |-> 2]
            /\ call' = [detections |-> <<>>, frame_id |-> 40])
              => /\ ret'.status = "ok"
                 /\ ret'.objs = <<>>
                 /\ 1 \notin DOMAIN tracks']_vars

\* The update at frame 2 with the shifted box has run after the one at
\* frame 1 that allocated id 1, returned the box as track 1 and allocated
\* nothing.
C23_Witness ==
    /\ match_thresh = 50
    /\ ret = [status |-> "ok",
              objs |-> <<[bbox |-> <<1, 1, 11, 11>>, confidence |-> 90,
                          track_id |-> 1]>>,
              new_ids |-> <<>>]
    /\ call.frame_id = 2
    /\ prev_max_frame = 1
    /\ issued = <<1>>
    /\ next_id = 2
    /\ tracks[1] = [bbox |-> <<1, 1, 11, 11>>, last_seen |-> 2]

-----------------------------------------------------------------------------
(* Properties of VideoProcessor.run, checked under VideoSpec               *)

\* A step of VideoSpec that is a pass of the frame loop with save_to_db.
IsSavingFrame == video.save_to_db /\ video'.frame_id = video.frame_id + 1

\* C25: every tracked detection update returns during a run with
\* save_to_db is persisted as a Detection row carrying its track_id: the
\* frame adds to the table, for each object returned, a row with its
\* track_id and box, written at that frame.
C25_EveryTrackedDetectionPersisted ==
    [][IsSavingFrame =>
        \A i \in 1 .. Len(ret'.objs) :
            \E r \in detection_rows' \ detection_rows :
                /\ r.track_id = ret'.objs[i].track_id
                /\ r.timestamp = now
                /\ r.bbox.coords = Nums(ret'.objs[i].bbox)]_vars

\* C26: in a run with save_to_db each frame adds exactly one row for every
\* track id that update returned on a detection of class 'person' and that
\* has no row yet, written at that frame with class_name 'person', and
\* nothing else; rows persist; the table holds at most one row per track id
\* and total_unique is the number of rows.
C26_OneRowPerPersonTrack ==
    [][IsSavingFrame =>
        \A objs \in {ret'.objs} :
        \A persons \in {{objs[i].track_id : i \in
                            {k \in 1 .. Len(objs) : objs[k].class = "person"}}} :
        \A fresh \in {persons \ {r.track_id : r \in detection_rows}} :
        \A added \in {detection_rows' \ detection_rows} :
            /\ detection_rows \subseteq detection_rows'
            /\ {r.track_id : r \in added} = fresh
            /\ Cardinality(added) = Cardinality(fresh)
            /\ \A r \in added : r.class_name = "person" /\ r.timestamp = now
            /\ \A r1 \in detection_rows', r2 \in detection_rows' :
                  r1.track_id = r2.track_id => r1 = r2
            /\ video'.total_unique = Cardinality(detection_rows')]_vars

\* A run with save_to_db has ended after three frames: track 1 was first
\* returned on a car and got its row later, at the frame where it was
\* returned on a person; track 2 was never returned on a person; the count
\* is 1.
C26_Witness ==
    /\ ~video.running
    /\ video.save_to_db
    /\ video.frame_id = 3
    /\ issued = <<1, 2>>
    /\ video.total_unique = 1
    /\ \E r \in detection_rows : r.track_id = 1 /\ r.timestamp > Seconds(60)
    /\ \A r \in detection_rows : r.track_id = 1

-----------------------------------------------------------------------------
(* Properties of the associator on a stream with ties, checked under       *)
(* TieSpec                                                                 *)

\* C35: when several active tracks have the same highest IoU above
\* match_thresh with a detection, update tags it with the lowest of their
\* ids, the track created first.  "Active" is the track set as the earlier
\* detections of the same call left it.
C35_TieGoesToOldestTrack ==
    [][ret'.status = "ok" =>
        \A above \in {SelectSeq(call'.detections,
                                 LAMBDA d : d.confidence > track_thresh)} :
        \A i \in 1 .. Len(ret'.objs) :
        \A before \in {DetectionLoop(SubSeq(above, 1, i - 1), 1,
                                     LoopStart(tracks, next_id), call'.frame_id)} :
            LET obj == ret'.objs[i]
                iou(t) == CalculateIou(obj.bbox, before.tracks[t].bbox)
                candidates == {t \in DOMAIN before.tracks :
                                  iou(t)[1] * 100 > match_thresh * iou(t)[2]}
                highest == {t \in candidates : \A u \in candidates :
                               iou(u)[1] * iou(t)[2] <= iou(t)[1] * iou(u)[2]}
            IN  highest # {} =>
                    /\ obj.track_id \in highest
                    /\ \A t \in highest : obj.track_id <= t]_vars

\* Tracks 1 and 2 are active, track 2 holds BoxLow, and a call with the
\* single detection BoxA was tagged 1 and refreshed nothing else: the state
\* after the tie of track 1 holding BoxC (IoU 0.9) with track 2 (IoU 0.9).
C35_Witness ==
    /\ ret.status = "ok"
    /\ ret.new_ids = <<>>
    /\ Len(ret.objs) = 1
    /\ ret.objs[1].bbox = BoxA
    /\ ret.objs[1].track_id = 1
    /\ DOMAIN tracks = {1, 2}
    /\ tracks[2].bbox = BoxLow
    /\ tracks[2].last_seen < call.frame_id

-----------------------------------------------------------------------------
(* Properties of successive VideoProcessor runs, checked under RerunSpec   *)

\* C38: the (camera_id, track_id) pairs persisted by two runs on the same
\* camera are disjoint: no row written before the current run started
\* carries the camera and track id of a row written since.
C38_RunsPersistDisjointTracks ==
    \A r1 \in detection_rows, r2 \in detection_rows :
        (r1.timestamp < video.started /\ video.started <= r2.timestamp) =>
            ~(r1.camera_id = r2.camera_id /\ r1.track_id = r2.track_id)

-----------------------------------------------------------------------------
(* Properties of the loitering agent, checked under AgentSpec              *)

\* A step of AgentSpec that is a run of the agent.
IsAgentStep == now' = now /\ agent'.status # "none"

\* The loitering alerts of a track in a table.
AlertsOf(table, camera_id, track_id) ==
    BagCardinality([a \in {x \in BagToSet(table) : /\ x.alert_type = "loitering"
                                                   /\ x.camera_id = camera_id
                                                   /\ x.track_id = track_id}
                    |-> table[a]])

\* C32: creating loitering alerts is idempotent: after a run of the agent
\* the alerts table holds exactly one loitering alert for every track the
\* run selected, and a run that directly follows a run, with track_states
\* and the clock unchanged, leaves the alerts table as it was.
C32_AlertsIdempotent ==
    [][IsAgentStep =>
        /\ \A track \in agent'.selected :
              AlertsOf(alerts', track.camera_id, track.track_id) = 1
        /\ agent.status # "none" => alerts' = alerts]_vars

\* C39: every track_states row with status 'loitering', last_time within
\* the 15 minutes of the agent's window and at least 5 detections is
\* selected by the next run of the agent and has a loitering alert after it.
C39_LoiteringTrackAlerted ==
    [][IsAgentStep =>
        \A r \in BagToSet(track_states) :
            (/\ r.status = "loitering"
             /\ r.last_time >= now - Seconds(15 * 60)
             /\ r.detection_count >= 5) =>
                /\ \E track \in agent'.selected :
                      track.camera_id = r.camera_id /\ track.track_id = r.track_id
                /\ AlertsOf(alerts', r.camera_id, r.track_id) >= 1]_vars

====
